---- MODULE Spec2Model ----
(***************************************************************************)
(* Model of python-coverage.py: the module-level CACHE registries, the     *)
(* watchdog event handler, the project/view listeners and                  *)
(* CoverageFile.missing_lines.                                             *)
(*                                                                         *)
(* Paths are Python str values, modelled as sequences of characters so     *)
(* that `in` on two str values (substring) and endswith are computed.      *)
(* The file name ".coverage" is kept as one token.                         *)
(***************************************************************************)
EXTENDS Integers, Sequences, FiniteSets, TLC

VARIABLES
    show_missing_lines,             \* settings["show_missing_lines"]
    open_folders,                   \* CACHE["open_folders"]: keys in insertion order
    coverage_files,                 \* CACHE["coverage_files"]: entries in insertion order
    coverage_for_file,              \* CACHE["coverage_for_file"]: file name -> object
    registered_view_event_handlers, \* CACHE["registered_view_event_handlers"]
    heap,                           \* the CoverageFile objects that are referenced
    FILE_OBSERVER,                  \* "Observer" (started) or "None"
    disk,                           \* content of each coverage database on disk
    events,                         \* watch events queued by the observer
    alive,                          \* the views that are open
    regions,                        \* view -> regions drawn under key "python-coverage"
    last,                           \* what the last handler did (history)
    missed,                         \* files whose latest lookup found no dataset (history)
    dropped,                        \* views closed while subscribed (history)
    test_dbs,                       \* the databases that test runs write
    failed,                         \* databases whose load raised in a discover call (history)
    first_registered,               \* database paths in the order they were first registered (history)
    watcher,                        \* where the observer thread is in _update, with the event's path
    unloading,                      \* where the thread that runs plugin_unloaded is
    \* missing_lines on its own: the data of one CoverageFile, the text of a
    \* view, the list returned for it, the list returned before the last
    \* edit, the line number the edit added, and what was done last
    pf_data, pf_text, pf_missing, pf_before, pf_pos, pf_op

mainvars == <<show_missing_lines, open_folders, coverage_files, coverage_for_file,
              registered_view_event_handlers, heap, FILE_OBSERVER, disk, events,
              alive, regions, last, missed, dropped>>
pfvars == <<pf_data, pf_text, pf_missing, pf_before, pf_pos, pf_op>>
hist == <<failed, first_registered>>
threads == <<watcher, unloading>>
rest == <<pfvars, test_dbs, hist, threads>>
vars == <<mainvars, rest>>

None == "None"

----------------------------------------------------------------------------
(* Bounds of the model *)

\* line numbers of a source text in the registry model are 1..MaxLine
MaxLine == 1
\* longest source text handed to missing_lines on its own
MaxLen == 5

----------------------------------------------------------------------------
(* The world: folders, databases, source files, windows and views *)

A == <<"/", "a">>
AB == <<"/", "a", "/", "b">>
XA == <<"/", "x", "/", "a">>
C == <<"/", "c">>

DbName == <<"/", ".coverage">>
DbA == A \o DbName
DbAB == AB \o DbName
DbPaths == {DbA, DbAB}
\* a path under a watched folder that is no coverage database
OtherPaths == {AB \o <<"/", "n">>}

F == AB \o <<"/", "f">>
Files == {F}

Windows == {<<AB>>, <<A>>, <<A, XA>>}
\* the windows of the projects that are loaded and closed: one more, with a
\* folder that no other window has
ProjectWindows == Windows \cup {<<AB, C>>}

\* two views of the file f and a view of a buffer that was never saved
Views == {"v0", "v1", "v2"}
\* view.file_name(): None or "" for a view without file
file_name(view) == IF view = "v0" THEN <<>> ELSE F
\* view.window().folders()
WindowOf(view) == IF view = "v1" THEN <<AB>> ELSE <<A>>

Lines == 1..MaxLine
\* what a test run writes to a coverage database: the executed lines of each
\* measured file, here none of its lines or all of them
CoverSets == {{}, Lines}
Contents == UNION {[S -> CoverSets] : S \in SUBSET Files}
\* a file that is no coverage database (cut off in the middle of a write)
Corrupt == [x \in {<<"corrupt">>} |-> {}]
\* a source text: per line, whether it holds an executable statement
LineKinds == {"stmt", "comment"}
TextsOfLen(n) == [1..n -> LineKinds]
\* the texts of the open views: MaxLine statements, or MaxLine comment lines
ViewTexts == {[i \in Lines |-> "stmt"], [i \in Lines |-> "comment"]}

----------------------------------------------------------------------------
(* Python values *)

\* `s in t` for two str values: s occurs in t as a substring
IsSubstring(s, t) ==
    \E i \in 0..(Len(t) - Len(s)) : SubSeq(t, i + 1, i + Len(s)) = s

\* folder is a proper ancestor directory of path p
IsUnder(p, folder) ==
    /\ Len(p) > Len(folder) + 1
    /\ SubSeq(p, 1, Len(folder)) = folder
    /\ p[Len(folder) + 1] = "/"

\* event.src_path.endswith(".coverage")
EndsWithCoverage(p) == Len(p) > 0 /\ p[Len(p)] = ".coverage"

\* a pathlib.Path and its str(): a Path is a value of another type than its text
PyPath(p) == <<"Path", p>>
PyStr(x) == x[2]

\* the keys of a dict kept as a sequence of entries [key, value]
Keys(d) == {d[i].key : i \in DOMAIN d}
\* `x in d`: the dict's keys are str values; x equals a key only if x is that str
InDict(x, d) == \E i \in DOMAIN d : x = <<"str", d[i].key>>
\* d[k] for a str k that is a key
Get(d, k) == d[CHOOSE i \in DOMAIN d : d[i].key = k].value
\* d[k] = v: a key already present keeps its place
Put(d, k, v) ==
    IF k \in Keys(d)
    THEN [i \in DOMAIN d |-> IF d[i].key = k THEN [key |-> k, value |-> v] ELSE d[i]]
    ELSE Append(d, [key |-> k, value |-> v])

\* sorted(list(S)) without reverse=True
RECURSIVE SortedAscending(_)
SortedAscending(S) ==
    IF S = {} THEN <<>>
    ELSE LET m == CHOOSE x \in S : \A y \in S : x <= y
         IN <<m>> \o SortedAscending(S \ {m})

\* sorted(list(S), reverse=True)
RECURSIVE SortedReverse(_)
SortedReverse(S) ==
    IF S = {} THEN <<>>
    ELSE LET m == CHOOSE x \in S : \A y \in S : y <= x
         IN <<m>> \o SortedReverse(S \ {m})

Range(f) == {f[x] : x \in DOMAIN f}
SeqToSet(q) == {q[i] : i \in DOMAIN q}

----------------------------------------------------------------------------
(* The CoverageFile objects *)

\* identities of CoverageFile objects: as many as can be referenced at once
\* (one per database path and one per bound file name)
ObjIds == {"o1", "o2", "o3"}

\* the objects still referenced from the two registries that hold them
Collect(hp, cf, cff) ==
    LET live == {cf[i].value : i \in DOMAIN cf} \cup Range(cff)
    IN [o \in live |-> hp[o]]

\* the identity of a newly constructed object that is about to be stored
\* under key p: one that nothing else refers to
NewId(cf, p) ==
    LET used == {cf[i].value : i \in {j \in DOMAIN cf : cf[j].key # p}}
                \cup Range(coverage_for_file)
    IN CHOOSE o \in ObjIds \ used : TRUE

\* data.read() on a file that is no database raises DataError
Unreadable(coverage_file) == disk[PyStr(coverage_file)] = Corrupt

\* CoverageFile.__init__: data.read() loads what the database holds now
CoverageFile(coverage_file) ==
    [coverage_file |-> coverage_file, data |-> disk[PyStr(coverage_file)]]

\* CoverageFile.update
update(self) == [self EXCEPT !.data = disk[PyStr(self.coverage_file)]]

\* CoverageFile.contains_file
contains_file(self, file) == file \in DOMAIN self.data

\* every line of the text taken for a statement
AllLines(text) == 1..Len(text)

\* PythonParser(text).statements: the lines that hold a statement
Statements(text) == {i \in 1..Len(text) : text[i] = "stmt"}

\* CoverageFile.missing_lines: None when data.lines(file) is None, else the list
missing_lines(self, file, text) ==
    IF file \notin DOMAIN self.data
    THEN [is_none |-> TRUE, list |-> <<>>]
    ELSE LET lines == self.data[file]
         IN [is_none |-> FALSE, list |-> SortedReverse(Statements(text) \ lines)]

\* `not missing`: None and the empty list are both false
Falsy(missing) == missing.is_none \/ missing.list = <<>>

----------------------------------------------------------------------------
(* What the last handler did *)

\* op: the handler; path: the database an event reloaded; scanned: the
\* handler went through CACHE["coverage_files"]; after_miss: the lookup before
\* this one, for the same file, found no dataset; rendered: the views whose
\* _update_regions the handler called; raised: it ended with an exception
Did(op) ==
    [op |-> op, path |-> <<>>, scanned |-> FALSE, after_miss |-> FALSE,
     reloaded |-> FALSE, rendered |-> {}, raised |-> FALSE]

----------------------------------------------------------------------------
(* PythonCoverageDataFileListener.update_available_coverage_files *)

\* Path.is_file(): the database exists
is_file(coverage_file) == PyStr(coverage_file) \in DOMAIN disk

RECURSIVE InGlobOrder(_)
InGlobOrder(S) ==
    IF S = {} THEN <<>>
    ELSE LET p == CHOOSE x \in S : \A y \in S : Len(x) <= Len(y)
         IN <<p>> \o InGlobOrder(S \ {p})

\* Path(folder).glob("**/.coverage"): the databases below folder, those of a
\* directory before those of its subdirectories
glob(folder) ==
    InGlobOrder({p \in DOMAIN disk : IsUnder(p, folder) /\ EndsWithCoverage(p)})

\* any(fold in folder for fold in CACHE["open_folders"])
AlreadyWatched(of, folder) ==
    \E i \in DOMAIN of : IsSubstring(of[i], folder)

\* `coverage_file.is_file() and coverage_file not in CACHE["coverage_files"]`
ShouldRegister(coverage_file, cf) ==
    is_file(coverage_file) /\ ~InDict(coverage_file, cf)

\* the loop over the glob: each database that passes the test is constructed
\* and stored under str(coverage_file); a constructor that raises ends the
\* loop, failed is the database it raised for
RECURSIVE RegisterFound(_, _, _)
RegisterFound(found, cf, hp) ==
    IF found = <<>> THEN [cf |-> cf, hp |-> hp, failed |-> {}]
    ELSE LET coverage_file == PyPath(Head(found))
             key == PyStr(coverage_file)
             o == NewId(cf, key)
         IN IF ~ShouldRegister(coverage_file, cf)
            THEN RegisterFound(Tail(found), cf, hp)
            ELSE IF Unreadable(coverage_file)
            THEN [cf |-> cf, hp |-> hp, failed |-> {key}]
            ELSE RegisterFound(Tail(found), Put(cf, key, o),
                    [x \in DOMAIN hp \cup {o} |->
                        IF x = o THEN CoverageFile(coverage_file) ELSE hp[x]])

\* the loop over window.folders() from folder number i on; a folder found
\* watched ends the call, FILE_OBSERVER.schedule on None raises, and so does
\* a constructor in the loop over the glob, after the folder was scheduled
RECURSIVE ScanFolders(_, _, _)
ScanFolders(folders, i, st) ==
    IF i > Len(folders) THEN st
    ELSE LET folder == folders[i]
         IN IF AlreadyWatched(st.of, folder) THEN st
            ELSE IF FILE_OBSERVER = None THEN [st EXCEPT !.raised = TRUE]
            ELSE LET r == RegisterFound(glob(folder), st.cf, st.hp)
                     scanned == [st EXCEPT !.of = Append(st.of, folder),
                                           !.cf = r.cf, !.hp = r.hp,
                                           !.failed = r.failed]
                 IN IF r.failed # {} THEN [scanned EXCEPT !.raised = TRUE]
                    ELSE ScanFolders(folders, i + 1, scanned)

\* the keys of the dict that the history does not have yet, in dict order
RECURSIVE NewKeys(_, _)
NewKeys(cf, known) ==
    IF cf = <<>> THEN <<>>
    ELSE IF Head(cf).key \in known THEN NewKeys(Tail(cf), known)
    ELSE <<Head(cf).key>> \o NewKeys(Tail(cf), known \cup {Head(cf).key})

update_available_coverage_files(window) ==
    /\ IF ~show_missing_lines
       THEN /\ UNCHANGED <<open_folders, coverage_files, heap, hist>>
            /\ last' = Did("update_available_coverage_files")
       ELSE LET r == ScanFolders(window, 1,
                        [of |-> open_folders, cf |-> coverage_files,
                         hp |-> heap, raised |-> FALSE, failed |-> {}])
            IN /\ open_folders' = r.of
               /\ coverage_files' = r.cf
               /\ heap' = Collect(r.hp, r.cf, coverage_for_file)
               /\ last' = [Did("update_available_coverage_files")
                              EXCEPT !.raised = r.raised]
               /\ failed' = (failed \cup r.failed) \ Keys(r.cf)
               /\ first_registered' = first_registered \o
                      NewKeys(r.cf, SeqToSet(first_registered))
    /\ UNCHANGED <<show_missing_lines, coverage_for_file,
                   registered_view_event_handlers, FILE_OBSERVER, disk, events,
                   alive, regions, missed, dropped, pfvars, test_dbs,
                   threads>>

on_new_project_async(window) == update_available_coverage_files(window)

on_load_project_async(window) == update_available_coverage_files(window)

on_post_save_project_async(window) == update_available_coverage_files(window)

on_pre_close_project(window) == update_available_coverage_files(window)

\* PythonCoverageDataFileListener.on_activated_async
DataFileListener_on_activated_async(view) ==
    /\ view \in alive
    /\ update_available_coverage_files(WindowOf(view))

----------------------------------------------------------------------------
(* PythonCoverageEventListener *)

\* CACHE["coverage_for_file"].get(file_name)
CachedDataset(cff, file) == IF file \in DOMAIN cff THEN cff[file] ELSE None

\* the cached object is ignored
AlwaysScan(coverage_file) == TRUE

\* `if not coverage_file`: a CoverageFile object is always true, None is not
NeedsScan(coverage_file) == coverage_file = None

\* the last object, in the order of the dict, that contains the file
LastContaining(cf, hp, file) ==
    LET hits == {i \in DOMAIN cf : contains_file(hp[cf[i].value], file)}
    IN IF hits = {} THEN None
       ELSE cf[CHOOSE i \in hits : \A j \in hits : j <= i].value

\* the for/else over CACHE["coverage_files"].values(): the first object, in
\* the order of the dict, that contains the file; None when the loop ends
FirstContaining(cf, hp, file) ==
    LET hits == {i \in DOMAIN cf : contains_file(hp[cf[i].value], file)}
    IN IF hits = {} THEN None
       ELSE cf[CHOOSE i \in hits : \A j \in hits : i <= j].value

\* the assignment made after the loop, whatever it found
BindAlways(cff, file, found) ==
    [f \in DOMAIN cff \cup {file} |-> IF f = file THEN found ELSE cff[f]]

\* CACHE["coverage_for_file"][file_name] = coverage_file, in the loop's body only
Bind(cff, file, found) ==
    IF found = None THEN cff
    ELSE [f \in DOMAIN cff \cup {file} |-> IF f = file THEN found ELSE cff[f]]

\* CACHE["registered_view_event_handlers"][file_name].add(self.view)
Subscribe(handlers, file, view) ==
    [f \in DOMAIN handlers \cup {file} |->
        IF f = file
        THEN (IF f \in DOMAIN handlers THEN handlers[f] ELSE {}) \cup {view}
        ELSE handlers[f]]

\* the regions drawn for the missing lines: one per line number, in order
RegionsFor(missing) == IF Falsy(missing) THEN <<>> ELSE missing.list

_update_regions(view, text) ==
    LET file == file_name(view)
        cached == CachedDataset(coverage_for_file, file)
        scanned == NeedsScan(cached)
        coverage_file == IF scanned
                         THEN FirstContaining(coverage_files, heap, file)
                         ELSE cached
    IN /\ file # <<>>
       /\ last' = [Did("_update_regions") EXCEPT !.scanned = scanned,
                        !.after_miss = (file \in missed)]
       /\ missed' = IF coverage_file = None THEN missed \cup {file}
                    ELSE missed \ {file}
       /\ coverage_for_file' =
              IF scanned THEN Bind(coverage_for_file, file, coverage_file)
              ELSE coverage_for_file
       /\ IF coverage_file = None
          THEN /\ regions' = [regions EXCEPT ![view] = <<>>]
               /\ UNCHANGED registered_view_event_handlers
          ELSE /\ registered_view_event_handlers' =
                      Subscribe(registered_view_event_handlers, file, view)
               /\ regions' = [regions EXCEPT ![view] =
                      RegionsFor(missing_lines(heap[coverage_file], file, text))]
       /\ UNCHANGED <<show_missing_lines, open_folders, coverage_files, heap,
                      FILE_OBSERVER, disk, events, alive, dropped, rest>>

\* _update_regions of a view without file name: nothing but a message
_update_regions_unnamed(view) ==
    /\ file_name(view) = <<>>
    /\ last' = Did("_update_regions")
    /\ UNCHANGED <<show_missing_lines, open_folders, coverage_files,
                   coverage_for_file, registered_view_event_handlers, heap,
                   FILE_OBSERVER, disk, events, alive, regions, missed,
                   dropped, rest>>

\* PythonCoverageEventListener.on_activated_async
EventListener_on_activated_async(view, text) ==
    /\ view \in alive
    /\ IF ~show_missing_lines
       THEN /\ regions' = [regions EXCEPT ![view] = <<>>]
            /\ last' = Did("on_activated_async")
            /\ UNCHANGED <<show_missing_lines, open_folders, coverage_files,
                           coverage_for_file, registered_view_event_handlers,
                           heap, FILE_OBSERVER, disk, events, alive, missed,
                           dropped, rest>>
       ELSE _update_regions(view, text) \/ _update_regions_unnamed(view)

\* a view is closed: the WeakSets drop it
CloseView(view) ==
    /\ view \in alive
    /\ alive' = alive \ {view}
    /\ registered_view_event_handlers' =
           [f \in DOMAIN registered_view_event_handlers |->
               registered_view_event_handlers[f] \ {view}]
    /\ regions' = [regions EXCEPT ![view] = <<>>]
    /\ dropped' = IF \E f \in DOMAIN registered_view_event_handlers :
                        view \in registered_view_event_handlers[f]
                  THEN dropped \cup {view} ELSE dropped
    /\ last' = Did("close")
    /\ UNCHANGED <<show_missing_lines, open_folders, coverage_files,
                   coverage_for_file, heap, FILE_OBSERVER, disk, events, missed,
                   rest>>

----------------------------------------------------------------------------
(* ToggleMissingLinesCommand *)

ToggleMissingLinesCommand_run ==
    /\ show_missing_lines' = ~show_missing_lines
    /\ last' = Did("toggle")
    /\ UNCHANGED <<open_folders, coverage_files, coverage_for_file,
                   registered_view_event_handlers, heap, FILE_OBSERVER, disk,
                   events, alive, regions, missed, dropped, rest>>

----------------------------------------------------------------------------
(* _FileWatcher *)

\* CACHE["registered_view_event_handlers"].get(event.src_path)
HandlersFor(handlers, src_path) ==
    IF src_path \in DOMAIN handlers THEN handlers[src_path] ELSE {}

\* the loop `for handler in handlers: handler()._update_regions()`: an
\* element of the WeakSet is a View, and calling a View raises TypeError, so
\* the first handler of a non-empty set ends the loop and no view is rendered
FanOut(handlers) == [rendered |-> {}, raised |-> handlers # {}]

\* `event.src_path not in CACHE["coverage_files"]`, negated: src_path is a str
IsRegistered(src_path, cf) == InDict(<<"str", src_path>>, cf)

_update(src_path) ==
    /\ IF ~EndsWithCoverage(src_path) \/ ~IsRegistered(src_path, coverage_files)
       THEN /\ heap' = heap
            /\ last' = Did("_update")
       ELSE LET o == Get(coverage_files, src_path)
                handlers == HandlersFor(registered_view_event_handlers, src_path)
            IN IF Unreadable(heap[o].coverage_file)
               THEN /\ heap' = heap
                    /\ last' = [Did("_update") EXCEPT !.path = src_path,
                                    !.raised = TRUE]
               ELSE /\ heap' = [heap EXCEPT ![o] = update(heap[o])]
                    /\ last' = [Did("_update") EXCEPT !.path = src_path,
                                    !.reloaded = TRUE,
                                    !.rendered = FanOut(handlers).rendered,
                                    !.raised = FanOut(handlers).raised]
    /\ UNCHANGED <<show_missing_lines, open_folders, coverage_files,
                   coverage_for_file, registered_view_event_handlers,
                   FILE_OBSERVER, disk, alive, regions, missed, dropped, rest>>

\* the observer reports a write as "modified" or as "created" (a database
\* that is replaced by a new file); both handlers take the queued event
on_modified(src_path) ==
    /\ src_path \in events
    /\ events' = events \ {src_path}
    /\ _update(src_path)

on_created(src_path) ==
    /\ src_path \in events
    /\ events' = events \ {src_path}
    /\ _update(src_path)

\* the observer watches p: it runs and p lies below a scheduled folder
IsWatched(p) ==
    /\ FILE_OBSERVER # None
    /\ \E i \in DOMAIN open_folders : IsUnder(p, open_folders[i])

\* an event for a path that is no database, delivered as it happens
on_modified_other(src_path) ==
    /\ IsWatched(src_path)
    /\ events' = events
    /\ _update(src_path)

\* a test run is cut off while it writes the database p
DiskCorrupt(p) ==
    /\ disk' = [q \in DOMAIN disk \cup {p} |-> IF q = p THEN Corrupt ELSE disk[q]]
    /\ events' = IF IsWatched(p) THEN events \cup {p} ELSE events
    /\ last' = Did("write")
    /\ UNCHANGED <<show_missing_lines, open_folders, coverage_files,
                   coverage_for_file, registered_view_event_handlers, heap,
                   FILE_OBSERVER, alive, regions, missed, dropped, rest>>

\* a test run writes the database p; the observer queues the event
DiskWrite(p, content) ==
    /\ disk' = [q \in DOMAIN disk \cup {p} |-> IF q = p THEN content ELSE disk[q]]
    /\ events' = IF IsWatched(p) THEN events \cup {p} ELSE events
    /\ last' = Did("write")
    /\ UNCHANGED <<show_missing_lines, open_folders, coverage_files,
                   coverage_for_file, registered_view_event_handlers, heap,
                   FILE_OBSERVER, alive, regions, missed, dropped, rest>>

----------------------------------------------------------------------------
(* plugin_loaded, plugin_unloaded *)

plugin_loaded ==
    /\ FILE_OBSERVER = None
    /\ FILE_OBSERVER' = "Observer"
    /\ last' = Did("plugin_loaded")
    /\ UNCHANGED <<show_missing_lines, open_folders, coverage_files,
                   coverage_for_file, registered_view_event_handlers, heap,
                   disk, events, alive, regions, missed, dropped, rest>>

\* the four registries are cleared, then FILE_OBSERVER.stop() is called:
\* on None it raises AttributeError
plugin_unloaded ==
    /\ coverage_files' = <<>>
    /\ open_folders' = <<>>
    /\ registered_view_event_handlers' = <<>>
    /\ coverage_for_file' = <<>>
    /\ heap' = <<>>
    /\ events' = {}
    /\ FILE_OBSERVER' = None
    /\ last' = [Did("plugin_unloaded") EXCEPT !.raised = (FILE_OBSERVER = None)]
    /\ first_registered' = <<>>
    /\ failed' = {}
    /\ UNCHANGED <<show_missing_lines, disk, alive, regions, missed, dropped,
                   pfvars, test_dbs, threads>>

----------------------------------------------------------------------------
(* The registries and their handlers *)

PfIdle ==
    /\ pf_data = <<>>
    /\ pf_text = <<>>
    /\ pf_missing = [is_none |-> TRUE, list |-> <<>>]
    /\ pf_before = [is_none |-> TRUE, list |-> <<>>]
    /\ pf_pos = 0
    /\ pf_op = "idle"

MainInit ==
    /\ show_missing_lines = TRUE
    /\ open_folders = <<>>
    /\ coverage_files = <<>>
    /\ coverage_for_file = <<>>
    /\ registered_view_event_handlers = <<>>
    /\ heap = <<>>
    /\ FILE_OBSERVER = "Observer"
    /\ disk = <<>>
    /\ events = {}
    /\ alive = Views
    /\ regions = [v \in Views |-> <<>>]
    /\ last = Did("init")
    /\ missed = {}
    /\ dropped = {}
    /\ failed = {}
    /\ first_registered = <<>>
    /\ watcher = [pc |-> "idle", path |-> <<>>]
    /\ unloading = "idle"

\* one database, below the folder /a/b
Init == MainInit /\ PfIdle /\ test_dbs = {DbAB}

Next ==
    \/ plugin_loaded
    \/ plugin_unloaded
    \/ ToggleMissingLinesCommand_run
    \/ \E window \in Windows : on_new_project_async(window)
    \/ \E window \in Windows : on_load_project_async(window)
    \/ \E window \in Windows : on_post_save_project_async(window)
    \/ \E window \in Windows : on_pre_close_project(window)
    \/ \E view \in Views : DataFileListener_on_activated_async(view)
    \/ \E view \in Views, text \in ViewTexts :
           EventListener_on_activated_async(view, text)
    \/ \E view \in Views : CloseView(view)
    \/ \E p \in DbPaths : on_modified(p)
    \/ \E p \in DbPaths : on_created(p)
    \/ \E p \in OtherPaths : on_modified_other(p)
    \/ \E p \in test_dbs, content \in Contents : DiskWrite(p, content)

Spec == Init /\ [][Next]_vars

----------------------------------------------------------------------------
(* Two databases, /a/.coverage and /a/b/.coverage, and test runs that may be
   cut off: the project handlers, one view of f, the watcher and the test runs *)

InitDatasets == MainInit /\ PfIdle /\ test_dbs = DbPaths

NextDatasets ==
    \/ \E window \in ProjectWindows : on_load_project_async(window)
    \/ \E window \in ProjectWindows : on_pre_close_project(window)
    \/ \E text \in ViewTexts : EventListener_on_activated_async("v1", text)
    \/ \E p \in DbPaths : on_modified(p)
    \/ \E p \in test_dbs, content \in Contents : DiskWrite(p, content)
    \/ \E p \in test_dbs : DiskCorrupt(p)

SpecDatasets == InitDatasets /\ [][NextDatasets]_vars

----------------------------------------------------------------------------
(* The observer thread and the thread of plugin_unloaded, statement by
   statement: _update tests the path at line 76 and looks it up at line 79,
   plugin_unloaded clears the registries at lines 98-101 and stops and joins
   the observer at lines 108-110; the threads may switch in between *)

\* _update up to line 77: the event is taken and its path tested
_update_check(src_path) ==
    /\ watcher.pc = "idle"
    /\ src_path \in events
    /\ events' = events \ {src_path}
    /\ watcher' = IF EndsWithCoverage(src_path)
                     /\ IsRegistered(src_path, coverage_files)
                  THEN [pc |-> "line79", path |-> src_path]
                  ELSE watcher
    /\ last' = Did("_update")
    /\ UNCHANGED <<show_missing_lines, open_folders, coverage_files,
                   coverage_for_file, registered_view_event_handlers, heap,
                   FILE_OBSERVER, disk, alive, regions, missed, dropped,
                   pfvars, test_dbs, hist, unloading>>

\* _update from line 79 on: CACHE["coverage_files"][event.src_path] raises
\* KeyError when the key is gone, else the object is reloaded
_update_reload ==
    /\ watcher.pc = "line79"
    /\ watcher' = [pc |-> "idle", path |-> <<>>]
    /\ IF ~IsRegistered(watcher.path, coverage_files)
       THEN /\ heap' = heap
            /\ last' = [Did("_update") EXCEPT !.path = watcher.path,
                            !.raised = TRUE]
       ELSE LET o == Get(coverage_files, watcher.path)
                handlers == HandlersFor(registered_view_event_handlers,
                                        watcher.path)
            IN /\ heap' = [heap EXCEPT ![o] = update(heap[o])]
               /\ last' = [Did("_update") EXCEPT !.path = watcher.path,
                               !.reloaded = TRUE,
                               !.rendered = FanOut(handlers).rendered,
                               !.raised = FanOut(handlers).raised]
    /\ UNCHANGED <<show_missing_lines, open_folders, coverage_files,
                   coverage_for_file, registered_view_event_handlers,
                   FILE_OBSERVER, disk, events, alive, regions, missed,
                   dropped, pfvars, test_dbs, hist, unloading>>

\* plugin_unloaded, lines 98-101
plugin_unloaded_clear ==
    /\ unloading = "idle"
    /\ unloading' = "line108"
    /\ coverage_files' = <<>>
    /\ open_folders' = <<>>
    /\ registered_view_event_handlers' = <<>>
    /\ coverage_for_file' = <<>>
    /\ heap' = <<>>
    /\ first_registered' = <<>>
    /\ failed' = {}
    /\ last' = Did("plugin_unloaded")
    /\ UNCHANGED <<show_missing_lines, FILE_OBSERVER, disk, events, alive,
                   regions, missed, dropped, pfvars, test_dbs, watcher>>

\* plugin_unloaded, lines 108-110: join returns when the observer thread has
\* left the handler it was in; stop() on None raises
plugin_unloaded_stop ==
    /\ unloading = "line108"
    /\ watcher.pc = "idle"
    /\ unloading' = "idle"
    /\ FILE_OBSERVER' = None
    /\ events' = {}
    /\ last' = [Did("plugin_unloaded") EXCEPT !.raised = (FILE_OBSERVER = None)]
    /\ UNCHANGED <<show_missing_lines, open_folders, coverage_files,
                   coverage_for_file, registered_view_event_handlers, heap,
                   disk, alive, regions, missed, dropped, pfvars, test_dbs,
                   hist, watcher>>

NextThreads ==
    \/ plugin_loaded
    \/ plugin_unloaded_clear
    \/ plugin_unloaded_stop
    \/ \E window \in Windows : on_load_project_async(window)
    \/ \E view \in Views, text \in ViewTexts :
           EventListener_on_activated_async(view, text)
    \/ \E p \in DbPaths : _update_check(p)
    \/ _update_reload
    \/ \E p \in test_dbs, content \in Contents : DiskWrite(p, content)

SpecThreads == Init /\ [][NextThreads]_vars

----------------------------------------------------------------------------
(* CoverageFile.missing_lines on its own: any data, any text *)

PfContents == UNION {[S -> SUBSET (1..MaxLen)] : S \in SUBSET Files}
PfTexts == UNION {TextsOfLen(n) : n \in 0..MaxLen}
PfSelf == [coverage_file |-> PyPath(DbAB), data |-> pf_data]

\* the text with one more line, of the given kind, as line number k
InsertLine(text, k, kind) ==
    SubSeq(text, 1, k - 1) \o <<kind>> \o SubSeq(text, k, Len(text))

\* _update_regions reads the text of the view and asks for the missing lines
Annotate ==
    /\ pf_missing' = missing_lines(PfSelf, F, pf_text)
    /\ pf_op' = "annotate"
    /\ UNCHANGED <<pf_data, pf_text, pf_before, pf_pos, mainvars, test_dbs, hist,
                   threads>>

\* the user adds a comment line as line k (on_modified_async does nothing);
\* the view is then annotated again from its new text
InsertCommentLine(k) ==
    /\ Len(pf_text) < MaxLen
    /\ k \in 1..(Len(pf_text) + 1)
    /\ pf_text' = InsertLine(pf_text, k, "comment")
    /\ pf_pos' = k
    /\ pf_before' = missing_lines(PfSelf, F, pf_text)
    /\ pf_missing' = missing_lines(PfSelf, F, pf_text')
    /\ pf_op' = "edit"
    /\ UNCHANGED <<pf_data, mainvars, test_dbs, hist,
                   threads>>

InitAnnotate ==
    /\ MainInit
    /\ test_dbs = {}
    /\ pf_data \in PfContents
    /\ pf_text \in PfTexts
    /\ pf_missing = [is_none |-> TRUE, list |-> <<>>]
    /\ pf_before = [is_none |-> TRUE, list |-> <<>>]
    /\ pf_pos = 0
    /\ pf_op = "idle"

NextAnnotate ==
    \/ Annotate
    \/ \E k \in 1..MaxLen : InsertCommentLine(k)

SpecAnnotate == InitAnnotate /\ [][NextAnnotate]_vars

----------------------------------------------------------------------------
(* Claims about missing_lines *)

StrictlyDescending(q) == \A i \in 1..(Len(q) - 1) : q[i] > q[i + 1]

\* C1: for a file the data has lines for, annotate returns exactly the
\* statement lines of the text that are not covered, each once, in strictly
\* descending order; covered {1,2,4} and statements {1,..,5} give [5,3].
C1_MissingDescending ==
    (pf_op # "idle" /\ F \in DOMAIN pf_data) =>
        /\ ~pf_missing.is_none
        /\ StrictlyDescending(pf_missing.list)
        /\ SeqToSet(pf_missing.list) = Statements(pf_text) \ pf_data[F]
        /\ (pf_data[F] = {1, 2, 4} /\ Statements(pf_text) = 1..5)
               => pf_missing.list = <<5, 3>>

C1_Witness ==
    /\ pf_op = "annotate"
    /\ F \in DOMAIN pf_data
    /\ pf_data[F] = {1, 2, 4}
    /\ Statements(pf_text) = 1..5
    /\ pf_missing = [is_none |-> FALSE, list |-> <<5, 3>>]

\* C8, as claimed: a comment line added at any position leaves the list of
\* missing lines as it was.
C8_AnyPositionUnchanged ==
    pf_op = "edit" => pf_missing = pf_before

\* C8, amended: a comment line added after the last statement line of the
\* text (so that no statement changes its line number) leaves the list of
\* missing lines as it was.
C8_AfterLastStatementUnchanged ==
    (pf_op = "edit" /\ \A i \in DOMAIN pf_text : pf_text[i] = "stmt" => i < pf_pos)
        => pf_missing = pf_before

C8_Witness ==
    /\ pf_op = "edit"
    /\ \A i \in DOMAIN pf_text : pf_text[i] = "stmt" => i < pf_pos
    /\ pf_pos = Len(pf_text)
    /\ ~pf_missing.is_none
    /\ Len(pf_missing.list) >= 2
    /\ pf_missing = pf_before

----------------------------------------------------------------------------
(* Claims about the registries *)

\* the registered objects that contain the file
RegisteredContaining(file) ==
    {coverage_files[i].value : i \in
        {j \in DOMAIN coverage_files :
            contains_file(heap[coverage_files[j].value], file)}}

\* the files bound to the object registered under the path
BoundTo(path) ==
    {f \in DOMAIN coverage_for_file :
        coverage_for_file[f] = Get(coverage_files, path)}

\* the last handler was the watcher and it reloaded the database last.path
Reloaded == last.op = "_update" /\ last.reloaded

\* C2, as claimed: once the event for the path of a file's dataset has been
\* processed, annotate of the file leaves out every line the database on
\* disk has as covered, whatever discover and activation calls came before.
C2_BindingSeesReload ==
    Reloaded =>
        \A f \in DOMAIN coverage_for_file :
            LET self == heap[coverage_for_file[f]]
            IN (PyStr(self.coverage_file) = last.path /\ f \in DOMAIN disk[last.path])
               => \A text \in ViewTexts, L \in disk[last.path][f] :
                      L \notin SeqToSet(missing_lines(self, f, text).list)

\* C3, as claimed: the handler of an event for a registered path has re-rendered
\* every subscribed view of every file bound to the reloaded dataset.
C3_ReloadRendersSubscribers ==
    Reloaded =>
        \A f \in BoundTo(last.path) :
            f \in DOMAIN registered_view_event_handlers
            => registered_view_event_handlers[f] \subseteq last.rendered

\* C4, as claimed: no two watched folders are ancestor and descendant; in
\* particular /a and /a/b are never watched together.
C4_NoNestedRoots ==
    \A i, j \in DOMAIN open_folders :
        ~IsUnder(open_folders[i], open_folders[j])

\* C5: a lookup that follows a lookup which bound (or found bound) the file,
\* with nothing in between, goes through no dataset, leaves the binding as it
\* is and annotates from the bound object.
C5_SecondLookupIsCacheHit ==
    [][\A view \in Views, text \in ViewTexts :
          (/\ last.op = "_update_regions"
           /\ F \in DOMAIN coverage_for_file
           /\ _update_regions(view, text))
          => /\ ~last'.scanned
             /\ coverage_for_file' = coverage_for_file
             /\ regions'[view] = RegionsFor(
                    missing_lines(heap[coverage_for_file[F]], F, text))]_vars

C5_Witness ==
    /\ last.op = "_update_regions"
    /\ ~last.scanned
    /\ F \in DOMAIN coverage_for_file
    /\ \E v \in Views : regions[v] # <<>>

\* C6, as claimed: when no registered dataset contains the file, a call of
\* _update_regions clears the view's regions, records no binding and does not
\* add the view to the file's subscribers.
C6_UnmeasuredFileLeavesNoTrace ==
    [][\A view \in Views, text \in ViewTexts :
          (/\ RegisteredContaining(file_name(view)) = {}
           /\ _update_regions(view, text))
          => /\ regions'[view] = <<>>
             /\ coverage_for_file' = coverage_for_file
             /\ registered_view_event_handlers' = registered_view_event_handlers]_vars

\* C7: a lookup that finds no dataset leaves no binding for the file; the
\* next lookup for that file goes through the registered datasets again and,
\* when one of them contains the file by then, binds the file to a registered
\* dataset that contains it, subscribes the view and annotates from it.
C7_NegativeLookupNotCached ==
    [][\A view \in Views, text \in ViewTexts :
          _update_regions(view, text)
          => /\ F \in missed' => F \notin DOMAIN coverage_for_file'
             /\ F \in missed =>
                /\ last'.scanned
                /\ IF RegisteredContaining(F) = {}
                   THEN F \in missed'
                   ELSE /\ F \in DOMAIN coverage_for_file'
                        /\ coverage_for_file'[F] \in RegisteredContaining(F)
                        /\ view \in registered_view_event_handlers'[F]
                        /\ regions'[view] = RegionsFor(
                               missing_lines(heap[coverage_for_file'[F]], F, text))]_vars

C7_Witness ==
    /\ last.op = "_update_regions"
    /\ last.after_miss
    /\ last.scanned
    /\ F \in DOMAIN coverage_for_file
    /\ coverage_for_file[F] \in RegisteredContaining(F)
    /\ \E v \in Views : regions[v] # <<>>

\* C9, as claimed: after the toggle is switched off no open view has regions,
\* and no watch event reloads a dataset while it is off.
C9_ToggleOffClearsAndHalts ==
    /\ (last.op = "toggle" /\ ~show_missing_lines)
           => \A v \in alive : regions[v] = <<>>
    /\ ~show_missing_lines => ~Reloaded

\* C10, as claimed: a closed view is in no subscriber set, and once a
\* subscribed view is closed the handler of an event for a registered path does not raise,
\* calls no closed view and re-renders the live subscribers of the files
\* bound to the reloaded dataset.
C10_ClosedViewSkippedOthersRendered ==
    /\ \A f \in DOMAIN registered_view_event_handlers :
           registered_view_event_handlers[f] \subseteq alive
    /\ (Reloaded /\ dropped # {}) =>
           /\ ~last.raised
           /\ last.rendered \subseteq alive
           /\ \A f \in BoundTo(last.path) :
                  f \in DOMAIN registered_view_event_handlers
                  => registered_view_event_handlers[f] \subseteq last.rendered

----------------------------------------------------------------------------
(* Claims about teardown, discovery and release *)

\* folder is covered by the watched folders: it is one of them or lies below one
Covered(of, folder) ==
    \E i \in DOMAIN of : folder = of[i] \/ IsUnder(folder, of[i])

\* the databases on disk below the folder
DatabasesUnder(folder) ==
    {p \in DOMAIN disk : IsUnder(p, folder) /\ EndsWithCoverage(p)}

\* C11, as claimed: a call of plugin_unloaded that directly follows a completed
\* call of plugin_unloaded does not raise and leaves the registries empty and
\* the observer released.
C11_TeardownIdempotent ==
    [][(/\ last.op = "plugin_unloaded"
        /\ ~last.raised
        /\ plugin_unloaded)
       => /\ ~last'.raised
          /\ coverage_files' = <<>> /\ open_folders' = <<>>
          /\ registered_view_event_handlers' = <<>>
          /\ coverage_for_file' = <<>>
          /\ FILE_OBSERVER' = None]_vars

\* C12, as claimed: after a discover call (toggle on, observer running) on a
\* window with a folder that is already watched, every database that now
\* exists below that folder is a key of CACHE["coverage_files"]; the event of
\* its creation registered nothing.
C12_LateDatabaseRegisteredByNextDiscover ==
    [][\A window \in Windows :
          (/\ show_missing_lines
           /\ FILE_OBSERVER # None
           /\ update_available_coverage_files(window))
          => \A k \in DOMAIN window :
                 window[k] \in SeqToSet(open_folders)
                 => DatabasesUnder(window[k]) \subseteq Keys(coverage_files')]_vars

\* C13, as claimed: a pre-close-project call for a window releases each watched
\* folder of the window that no other window has: the folder is no longer in
\* CACHE["open_folders"] and no database below it is registered.
C13_PreCloseReleasesRoot ==
    [][\A window \in ProjectWindows :
          on_pre_close_project(window)
          => \A k \in DOMAIN window :
                 (/\ window[k] \in SeqToSet(open_folders)
                  /\ \A other \in ProjectWindows \ {window} :
                         window[k] \notin SeqToSet(other))
                 => /\ window[k] \notin SeqToSet(open_folders')
                    /\ \A p \in Keys(coverage_files') : ~IsUnder(p, window[k])]_vars

\* C14, as claimed: every binding of CACHE["coverage_for_file"] holds the very
\* object that CACHE["coverage_files"] has under that object's database path.
C14_BindingIsRegisteredObject ==
    \A f \in DOMAIN coverage_for_file :
        LET o == coverage_for_file[f]
            path == PyStr(heap[o].coverage_file)
        IN /\ path \in Keys(coverage_files)
           /\ Get(coverage_files, path) = o

\* C15, as claimed: a call of _update_regions for a file whose bound dataset
\* no longer contains it drops the binding and goes through the registered
\* datasets: the file ends bound to a registered dataset that contains it
\* when there is one, and unbound with the view's regions cleared when not.
C15_StaleBindingRechecked ==
    [][\A view \in Views, text \in ViewTexts :
          (/\ F \in DOMAIN coverage_for_file
           /\ ~contains_file(heap[coverage_for_file[F]], F)
           /\ file_name(view) = F
           /\ _update_regions(view, text))
          => IF RegisteredContaining(F) # {}
             THEN /\ F \in DOMAIN coverage_for_file'
                  /\ coverage_for_file'[F] \in RegisteredContaining(F)
             ELSE /\ F \notin DOMAIN coverage_for_file'
                  /\ regions'[view] = <<>>]_vars

\* no folder of the window is covered by a watched folder or by a folder that
\* comes before it in the window
FreshRoots(window, of) ==
    \A k \in DOMAIN window : ~Covered(of \o SubSeq(window, 1, k - 1), window[k])

\* C16, as claimed: a discover call (toggle on, observer running) skips a
\* folder only if it is, or lies below, a watched folder: when no folder of
\* the window is covered, each of them is watched after the call and the
\* databases below it are registered (/x/a is watched although /a is).
C16_OnlyCoveredRootsSkipped ==
    [][\A window \in Windows :
          (/\ show_missing_lines
           /\ FILE_OBSERVER # None
           /\ FreshRoots(window, open_folders)
           /\ update_available_coverage_files(window))
          => \A k \in DOMAIN window :
                 /\ window[k] \in SeqToSet(open_folders')
                 /\ DatabasesUnder(window[k]) \subseteq Keys(coverage_files')]_vars

\* C20, as claimed: after a discover call (toggle on, observer running) every
\* folder of the window is covered by a watched folder, also a folder that
\* follows a folder which was covered before the call. Stated for the folders
\* that the test of line 217 does not take for watched.
C20_EveryFolderOfWindowCovered ==
    [][\A window \in ProjectWindows :
          (/\ show_missing_lines
           /\ FILE_OBSERVER # None
           /\ update_available_coverage_files(window))
          => \A k \in DOMAIN window :
                 ~AlreadyWatched(open_folders \o SubSeq(window, 1, k - 1), window[k])
                 => Covered(open_folders', window[k])]_vars

----------------------------------------------------------------------------
(* Claims about several databases *)

\* C17, as claimed: a discover call in which the load of a database raised
\* has registered every loadable database below the folders it began to
\* watch, and the event for a database whose load raised, once the database
\* can be loaded, leaves it registered with the data on disk.
C17_UnreadableDatabaseRecoverable ==
    [][/\ \A window \in ProjectWindows :
              (/\ FILE_OBSERVER # None
               /\ on_load_project_async(window)
               /\ last'.raised)
              => \A folder \in SeqToSet(open_folders') \ SeqToSet(open_folders) :
                     \A p \in DatabasesUnder(folder) :
                         disk[p] # Corrupt => p \in Keys(coverage_files')
       /\ \A p \in DbPaths :
              (/\ p \in failed
               /\ disk[p] # Corrupt
               /\ on_modified(p))
              => /\ p \in Keys(coverage_files')
                 /\ heap'[Get(coverage_files', p)].data = disk[p]]_vars

\* the database paths whose registered object contains the file
PathsContaining(file) ==
    {p \in Keys(coverage_files) : contains_file(heap[Get(coverage_files, p)], file)}

\* the first of the paths, in the order they were first registered
FirstRegistered(paths) ==
    first_registered[CHOOSE i \in DOMAIN first_registered :
        /\ first_registered[i] \in paths
        /\ \A j \in 1..(i - 1) : first_registered[j] \notin paths]

\* C18: a call of _update_regions for a file without binding that two
\* registered datasets contain binds it to the object registered under the
\* path that was registered first, whatever reloads and discover calls
\* came after the registration.
C18_FirstRegisteredWins ==
    [][\A view \in Views, text \in ViewTexts :
          (/\ file_name(view) = F
           /\ F \notin DOMAIN coverage_for_file
           /\ Cardinality(PathsContaining(F)) >= 2
           /\ _update_regions(view, text))
          => /\ F \in DOMAIN coverage_for_file'
             /\ coverage_for_file'[F] =
                    Get(coverage_files, FirstRegistered(PathsContaining(F)))]_vars

C18_Witness ==
    /\ last.op = "_update_regions"
    /\ last.scanned
    /\ PathsContaining(F) = DbPaths
    /\ first_registered = <<DbAB, DbA>>
    /\ F \in DOMAIN coverage_for_file
    /\ coverage_for_file[F] = Get(coverage_files, DbAB)
    /\ heap[coverage_for_file[F]].data # disk[DbAB]

----------------------------------------------------------------------------
(* Claims about the two threads *)

\* C19, as claimed: whatever plugin_unloaded does on its thread while the
\* observer thread is in _update, a handler that found the event's path
\* registered ends without exception.
C19_HandlerNeverFails ==
    (last.op = "_update" /\ last.path # <<>>) => ~last.raised

====
